---- MODULE Spec2Model ----
(***************************************************************************)
(* Model of the two batch jobs of vpa-recommendations:                     *)
(*   manage-vpas/manage-vpas.go            (the provisioning job)          *)
(*   get-recommendations/get-recommendations.go  (the reporting job)       *)
(* The cluster (workloads, VPAs, HPAs) is the shared state; each job is a  *)
(* sequential program whose steps are its cluster calls.                   *)
(***************************************************************************)
EXTENDS Integers, Sequences, FiniteSets, TLC

\* ------------------------------------------------------------------------
\* Bounds of the model
\* ------------------------------------------------------------------------
\* most workloads in the namespace whose content varies
MaxWorkloads == 2
\* job invocations in one behaviour
MaxRuns == 2
\* most VPAs in that namespace when the reporting job is started first
MaxVPAs == 2
\* workloads other actors delete while the reporting job runs
MaxEnvDeletes == 1

\* ------------------------------------------------------------------------
\* Program constants
\* ------------------------------------------------------------------------
vpaSuffix == "8dn39"

resultsFile == "results.csv"

\* ------------------------------------------------------------------------
\* The cluster the jobs run against
\* ------------------------------------------------------------------------
Namespaces == {"shop", "infra"}

\* the order in which the cluster lists its namespaces
ClusterNamespaces == <<"shop", "infra">>

\* values of the --namespaces flag; <<>> is the flag left out
FlagChoices == {<< >>, <<"shop">>}

Target(a, k, n) == [apiVersion |-> a, kind |-> k, name |-> n]

OwnerRef(a, k, n, c) == [apiVersion |-> a, kind |-> k, name |-> n, controller |-> c]

\* metav1.OwnerReference.Controller is a *bool: "true", "false" or "nil"
PromTrue == OwnerRef("monitoring.coreos.com/v1", "Prometheus", "monitoring", "true")

PromFalse == OwnerRef("monitoring.coreos.com/v1", "Prometheus", "monitoring", "false")

PromNil == OwnerRef("monitoring.coreos.com/v1", "Prometheus", "monitoring", "nil")

StsTrue == OwnerRef("apps/v1", "StatefulSet", "cache", "true")

OwnerChains ==
    { << >>, <<PromTrue>>, <<PromFalse>>, <<PromNil>>,
      <<PromFalse, StsTrue>>, <<StsTrue, PromTrue>> }

Container(n, cpu, mem) == [name |-> n, cpu |-> cpu, mem |-> mem]

Workload(k, n, o, cs) == [kind |-> k, name |-> n, ownerReferences |-> o, containers |-> cs]

NoRecommendation == [set |-> FALSE, items |-> << >>]

VPA(n, t, mode, labels, rec) ==
    [name |-> n, target |-> t, updateMode |-> mode, labels |-> labels, recommendation |-> rec]

\* labels are a map; modelled as the set of its <<key, value>> pairs
ScriptLabels ==
    { <<"source-control-managed", "false">>, <<"managed-by", "vpa-recommendations-script">> }

\* ------------------------------------------------------------------------
\* State
\* ------------------------------------------------------------------------
VARIABLES
    workloads,      \* cluster: namespace -> sequence of workloads (listing order)
    vpas,           \* cluster: namespace -> sequence of VPAs (listing order)
    hpas,           \* cluster: namespace -> sequence of HPA scale targets
    file,           \* results.csv: [exists, rows]
    jobs,           \* the program run by each invocation so far: "manage" or "report"
    run,            \* number of the invocation
    flagNs,         \* value of --namespaces
    pc,             \* position of main
    namespaces,     \* main: namespaces
    nsIdx,          \* main: index of the namespace loop
    resources,      \* manage main: resources of the current namespace
    rIdx,           \* manage main: index of the resource loop
    hasHPAMapping,  \* report main: HPA targets of the current namespace
    vpaItems,       \* report main: vpas.Items of the current namespace
    vIdx,           \* report main: index of the VPA loop
    cIdx,           \* report main: index of the container recommendation loop
    results,        \* report main: results
    abortCause,     \* why main panicked, "" while it has not
    createCalls,    \* history: the VPA create calls issued
    failedCalls,    \* history: number of cluster calls that returned an error
    vpasAtStart,    \* history: vpas when the current run started
    staleRows,      \* history: rows appended for a target that was absent
    envDeleted      \* history: number of workloads deleted by other actors

cluster == <<workloads, vpas, hpas, file>>

manageLocals == <<resources, rIdx>>

reportLocals == <<hasHPAMapping, vpaItems, vIdx, cIdx, results>>

history == <<createCalls, failedCalls, vpasAtStart, staleRows, envDeleted>>

vars ==
    <<workloads, vpas, hpas, file, jobs, run, flagNs, pc, namespaces, nsIdx, resources, rIdx,
      hasHPAMapping, vpaItems, vIdx, cIdx, results, abortCause, createCalls, failedCalls,
      vpasAtStart, staleRows, envDeleted>>

\* ------------------------------------------------------------------------
\* manage-vpas: pure functions
\* ------------------------------------------------------------------------
emptyResource == Target("", "", "")

\* the loop of checkOwnedBy from entry i on; *ref.Controller of a nil pointer panics
RECURSIVE scanOwnerReferences(_, _)
scanOwnerReferences(refs, i) ==
    IF i > Len(refs) THEN [outcome |-> "notfound", r |-> emptyResource]
    ELSE IF refs[i].controller = "nil" THEN [outcome |-> "panic", r |-> emptyResource]
    ELSE IF refs[i].controller = "true"
         THEN [outcome |-> "found",
               r |-> Target(refs[i].apiVersion, refs[i].kind, refs[i].name)]
    ELSE scanOwnerReferences(refs, i + 1)

checkOwnedBy(m) ==
    IF Len(m.ownerReferences) = 0 THEN [outcome |-> "notfound", r |-> emptyResource]
    ELSE scanOwnerReferences(m.ownerReferences, 1)

\* the items one list call of aggregateResourceNames returns
listKind(ws, kind) == SelectSeq(ws, LAMBDA w : w.kind = kind)

\* the body of one of the three loops of aggregateResourceNames, for one item
resolveItem(w, kind) ==
    LET c == checkOwnedBy(w)
    IN  IF c.outcome = "found" THEN c.r ELSE Target("apps/v1", kind, w.name)

resolveItems(items, kind) == [i \in 1..Len(items) |-> resolveItem(items[i], kind)]

\* aggregateResourceNames after its three list calls succeeded
aggregateResourceNames(ws) ==
    LET d  == listKind(ws, "Deployment")
        s  == listKind(ws, "StatefulSet")
        ds == listKind(ws, "DaemonSet")
        all == d \o s \o ds
    IN  [panic   |-> \E i \in 1..Len(all) : checkOwnedBy(all[i]).outcome = "panic",
         results |-> resolveItems(d, "Deployment") \o resolveItems(s, "StatefulSet")
                        \o resolveItems(ds, "DaemonSet")]

Min(S) == CHOOSE x \in S : \A y \in S : x <= y

\* containsVPATarget comparing the VPA's own name with the target's name
containsVPATargetOwnName(spec, items) ==
    LET hits == { i \in 1..Len(items) :
                    /\ items[i].name = spec.name
                    /\ items[i].target.kind = spec.kind
                    /\ items[i].target.apiVersion = spec.apiVersion }
    IN  IF hits = {} THEN [found |-> FALSE, existingVPAName |-> ""]
        ELSE [found |-> TRUE, existingVPAName |-> items[Min(hits)].name]

\* containsVPATarget comparing the target's name only
containsVPATargetNameOnly(spec, items) ==
    LET hits == { i \in 1..Len(items) : items[i].target.name = spec.name }
    IN  IF hits = {} THEN [found |-> FALSE, existingVPAName |-> ""]
        ELSE [found |-> TRUE, existingVPAName |-> items[Min(hits)].name]

containsVPATarget(spec, items) ==
    LET hits == { i \in 1..Len(items) :
                    /\ items[i].target.name = spec.name
                    /\ items[i].target.kind = spec.kind
                    /\ items[i].target.apiVersion = spec.apiVersion }
    IN  IF hits = {} THEN [found |-> FALSE, existingVPAName |-> ""]
        ELSE [found |-> TRUE, existingVPAName |-> items[Min(hits)].name]

\* newVPA with the API version of the native kinds in place of the resolved one
newVPAAppsV1(apiGroup, resourceType, resourceName) ==
    VPA(resourceName \o "-vpa-" \o vpaSuffix,
        Target("apps/v1", resourceType, resourceName),
        "Off", ScriptLabels, NoRecommendation)

\* newVPA with an update mode that applies the recommendations
newVPAAuto(apiGroup, resourceType, resourceName) ==
    VPA(resourceName \o "-vpa-" \o vpaSuffix,
        Target(apiGroup, resourceType, resourceName),
        "Auto", ScriptLabels, NoRecommendation)

\* the object createVPA builds when no VPA targets the resource yet
newVPA(apiGroup, resourceType, resourceName) ==
    VPA(resourceName \o "-vpa-" \o vpaSuffix,
        Target(apiGroup, resourceType, resourceName),
        "Off", ScriptLabels, NoRecommendation)

\* createVPA up to its create call: skip, or the object to create
createVPA(apiGroup, resourceType, resourceName, items) ==
    LET c == containsVPATarget(Target(apiGroup, resourceType, resourceName), items)
    IN  IF c.found THEN [skip |-> TRUE, vpa |-> newVPA(apiGroup, resourceType, resourceName)]
        ELSE [skip |-> FALSE, vpa |-> newVPA(apiGroup, resourceType, resourceName)]

\* the API server rejects a create whose name is taken in the namespace
nameTaken(store, v) == \E i \in 1..Len(store) : store[i].name = v.name

\* the API server's store after a create that was accepted
storeCreate(store, v) == Append(store, v)

\* createVPA that brings an existing VPA of the target to the script's configuration
afterCreateVPAUpdate(store, c) ==
    IF c.skip
    THEN [i \in 1..Len(store) |-> IF store[i].target = c.vpa.target THEN c.vpa ELSE store[i]]
    ELSE storeCreate(store, c.vpa)

\* the VPAs of the namespace after createVPA returned nil
afterCreateVPA(store, c) == IF c.skip THEN store ELSE storeCreate(store, c.vpa)

\* an error that is logged and not propagated
onErrorContinue(next) == next

\* panic(err.Error()): main stops; next is where a program that went on would be
onError(next) == "aborted"

\* ------------------------------------------------------------------------
\* get-recommendations: pure functions
\* ------------------------------------------------------------------------
\* strings.ToLower on the strings of the model
ToLower(s) ==
    CASE s = "App" -> "app"
      [] s = "APP" -> "app"
      [] s = "WEB" -> "web"
      [] s = "Deployment" -> "deployment"
      [] s = "StatefulSet" -> "statefulset"
      [] s = "DaemonSet" -> "daemonset"
      [] s = "Prometheus" -> "prometheus"
      [] OTHER -> s

SupportedKinds == {"Deployment", "StatefulSet", "DaemonSet"}

\* whether the cluster holds an object of that kind and name in the namespace's workloads
objectExists(ws, kind, name) ==
    \E i \in 1..Len(ws) : ws[i].kind = kind /\ ws[i].name = name

\* the object a Get of that kind and name returns
getObject(ws, kind, name) ==
    ws[Min({ i \in 1..Len(ws) : ws[i].kind = kind /\ ws[i].name = name })]

\* resourceExists when its Get returns no error other than NotFound
resourceExists(resourceName, resourceType, ws) ==
    IF resourceType \in SupportedKinds THEN objectExists(ws, resourceType, resourceName)
    ELSE TRUE

zeroDrift ==
    [currentCPUStr |-> "", currentMemStr |-> "", currentCPU |-> 0, currentMem |-> 0,
     cpuDiff |-> 0, memDiff |-> 0]

\* fmt.Sprintf("%dMi", bytes/1024/1024)
formatMi(bytes) == ToString((bytes \div 1024) \div 1024) \o "Mi"

\* fmt.Sprintf("%dm", milli)
formatMilli(milli) == ToString(milli) \o "m"

\* cpuConfig that formats the request and does not keep its raw value
cpuConfigNoRaw(d, container) ==
    IF container.cpu = 0 THEN [d EXCEPT !.currentCPUStr = "NOT_SET"]
    ELSE [d EXCEPT !.currentCPUStr = formatMilli(container.cpu)]

\* the part of getContainerResourceConfig that sets the CPU fields of the matched container
cpuConfig(d, container) ==
    IF container.cpu = 0 THEN [d EXCEPT !.currentCPUStr = "NOT_SET"]
    ELSE [d EXCEPT !.currentCPUStr = formatMilli(container.cpu), !.currentCPU = container.cpu]

\* the part of getContainerResourceConfig that sets the memory fields of the matched container
memConfig(d, container) ==
    IF formatMi(container.mem) = "0Mi" THEN [d EXCEPT !.currentMemStr = "NOT_SET"]
    ELSE [d EXCEPT !.currentMemStr = formatMi(container.mem), !.currentMem = container.mem]

getContainerResourceConfig(containers, containerName) ==
    LET hits == { i \in 1..Len(containers) :
                    ToLower(containers[i].name) = ToLower(containerName) }
    IN  IF hits = {} THEN zeroDrift
        ELSE memConfig(cpuConfig(zeroDrift, containers[Min(hits)]), containers[Min(hits)])

\* currentResourceConfig when its Get returns no error
currentResourceConfig(resourceName, resourceType, containerName, ws) ==
    IF resourceType \in SupportedKinds
    THEN getContainerResourceConfig(getObject(ws, resourceType, resourceName).containers,
                                    containerName)
    ELSE zeroDrift

\* resource.Quantity.String() of a CPU quantity of that many milli-cores
quantityString(milli) ==
    IF milli % 1000 = 0 THEN ToString(milli \div 1000) ELSE ToString(milli) \o "m"

\* main, lines 148-154: the diffs of a row
withDiffs(d, cpuTargetRaw, memoryTargetBytes) ==
    LET c == IF d.currentCPUStr # "NOT_SET"
             THEN [d EXCEPT !.cpuDiff = cpuTargetRaw - d.currentCPU] ELSE d
    IN  IF d.currentMemStr # "NOT_SET"
        THEN [c EXCEPT !.memDiff = memoryTargetBytes - d.currentMem] ELSE c

\* hasHPA comparing kind and name as they are written
hasHPAExact(mapping, resourceType, resourceName) ==
    \E i \in 1..Len(mapping) :
        mapping[i].kind = resourceType /\ mapping[i].name = resourceName

\* main, lines 156-160
hasHPA(mapping, resourceType, resourceName) ==
    \E i \in 1..Len(mapping) :
        /\ ToLower(mapping[i].kind) = ToLower(resourceType)
        /\ ToLower(mapping[i].name) = ToLower(resourceName)

\* main, lines 120-164: the row of one container recommendation
buildRow(namespace, vpa, rec, d, mapping) ==
    [namespace       |-> namespace,
     resourceType    |-> vpa.target.kind,
     resourceName    |-> vpa.target.name,
     containerName   |-> rec.containerName,
     vpaName         |-> vpa.name,
     targetCPUStr    |-> quantityString(rec.cpu),
     targetMemoryStr |-> formatMi(rec.mem),
     currentConfig   |-> withDiffs(d, rec.cpu, rec.mem),
     hasHPA          |-> hasHPA(mapping, vpa.target.kind, vpa.target.name)]

csvHeader ==
    <<"namespace", "resourceType", "resourceName", "containerName", "VPA Target CPU",
      "VPA Target Memory", "Current CPU Requests", "Current Memory Requests",
      "CPU Diff (VPA-Current)", "Memory Diff (VPA-Current)", "HPA Enabled">>

csvRecord(r) ==
    <<r.namespace, r.resourceType, r.resourceName, r.containerName, r.targetCPUStr,
      r.targetMemoryStr, r.currentConfig.currentCPUStr, r.currentConfig.currentMemStr,
      ToString(r.currentConfig.cpuDiff), ToString(r.currentConfig.memDiff),
      IF r.hasHPA THEN "true" ELSE "false">>

\* writeResults: the records handed to the csv writer
csvSource(rs) == <<csvHeader>> \o [i \in 1..Len(rs) |-> csvRecord(rs[i])]

\* ------------------------------------------------------------------------
\* Initial states: the clusters and flags the jobs are started on
\* ------------------------------------------------------------------------
\* the sequences over S of length at most n
SeqsUpTo(S, n) == UNION { [1..k -> S] : k \in 0..n }

\* the API server keeps (kind, name) unique in a namespace
distinctObjects(ws) ==
    \A i, j \in 1..Len(ws) :
        i # j => (ws[i].kind # ws[j].kind \/ ws[i].name # ws[j].name)

\* each kind is a list of its own: the objects of a namespace are kept kind after kind
kindRank(k) ==
    CASE k = "Deployment" -> 1
      [] k = "StatefulSet" -> 2
      [] k = "DaemonSet" -> 3
      [] OTHER -> 4

groupedByKind(ws) ==
    \A i, j \in 1..Len(ws) : i < j => kindRank(ws[i].kind) <= kindRank(ws[j].kind)

\* no object is its own owner
noSelfOwner(ws) ==
    \A i \in 1..Len(ws) : \A k \in 1..Len(ws[i].ownerReferences) :
        ~ /\ ws[i].ownerReferences[k].apiVersion = "apps/v1"
          /\ ws[i].ownerReferences[k].kind = ws[i].kind
          /\ ws[i].ownerReferences[k].name = ws[i].name

\* the API server keeps the names of the VPAs unique in a namespace
distinctNames(vs) == \A i, j \in 1..Len(vs) : i # j => vs[i].name # vs[j].name

\* the API server lists the VPAs that were there before the jobs by name
nameRank(n) ==
    CASE n = "cache-custom" -> 1
      [] n = "monitoring-vpa-" \o vpaSuffix -> 2
      [] OTHER -> 3

listedByName(vs) ==
    \A i, j \in 1..Len(vs) : i < j => nameRank(vs[i].name) <= nameRank(vs[j].name)

DefaultContainers == <<Container("app", 250, 67108864)>>

WorkloadKeys ==
    { <<"Deployment", "web">>, <<"StatefulSet", "web">>, <<"StatefulSet", "cache">>,
      <<"DaemonSet", "cache">> }

ManageWorkloads ==
    { Workload(k[1], k[2], o, DefaultContainers) : k \in WorkloadKeys, o \in OwnerChains }

InfraWorkloads == <<Workload("Deployment", "web", << >>, DefaultContainers)>>

Rec(n, cpu, mem) == [containerName |-> n, cpu |-> cpu, mem |-> mem]

Recommendation(items) == [set |-> TRUE, items |-> items]

\* VPAs that exist before the provisioning job runs
HandWeb ==
    VPA("web-custom", Target("apps/v1", "Deployment", "web"), "Auto", { <<"team", "shop">> },
        Recommendation(<<Rec("app", 500, 134217728)>>))

LeftoverWeb ==
    VPA("web-vpa-" \o vpaSuffix, Target("apps/v1", "StatefulSet", "web"), "Off", ScriptLabels,
        NoRecommendation)

HandProm ==
    VPA("prom", Target("monitoring.coreos.com/v1", "Prometheus", "monitoring"), "Initial",
        { <<"team", "shop">> }, Recommendation(<< >>))

ManageVPAChoices == { << >>, <<HandWeb>>, <<LeftoverWeb>>, <<HandProm>> }

ContainerChoices ==
    { << >>,
      <<Container("app", 250, 67108864)>>,
      <<Container("App", 0, 0)>>,
      <<Container("app", 750, 524288)>>,
      <<Container("sidecar", 100, 1048576), Container("app", 1000, 1572864)>> }

ReportWorkloads ==
    { Workload("Deployment", "web", << >>, cs) : cs \in ContainerChoices }
        \cup { Workload("StatefulSet", "cache", <<PromTrue>>, DefaultContainers),
               Workload("Prometheus", "monitoring", << >>, << >>) }

RecChoices ==
    { NoRecommendation,
      Recommendation(<< >>),
      Recommendation(<<Rec("app", 500, 134217728)>>),
      Recommendation(<<Rec("APP", 100, 1000000), Rec("sidecar", 2000, 2097152)>>) }

ReportVPAs ==
    { VPA("web-vpa-" \o vpaSuffix, Target("apps/v1", "Deployment", "web"), "Off",
          ScriptLabels, rc) : rc \in RecChoices }
        \cup { VPA("monitoring-vpa-" \o vpaSuffix,
                   Target("monitoring.coreos.com/v1", "Prometheus", "monitoring"), "Off",
                   ScriptLabels, Recommendation(<<Rec("prometheus", 500, 268435456)>>)),
               VPA("cache-custom", Target("apps/v1", "StatefulSet", "cache"), "Auto",
                   { <<"team", "shop">> }, Recommendation(<<Rec("app", 100, 33554432)>>)) }

HPA(k, n) == [kind |-> k, name |-> n]

HPAChoices ==
    { <<HPA("Deployment", "cache")>>, <<HPA("Deployment", "cache"), HPA("deployment", "WEB")>> }

NoFile == [exists |-> FALSE, rows |-> << >>]

InitProgram ==
    /\ run = 1
    /\ pc = "start"
    /\ namespaces = << >>
    /\ nsIdx = 0
    /\ resources = << >>
    /\ rIdx = 0
    /\ hasHPAMapping = << >>
    /\ vpaItems = << >>
    /\ vIdx = 0
    /\ cIdx = 0
    /\ results = << >>
    /\ abortCause = ""
    /\ createCalls = << >>
    /\ failedCalls = 0
    /\ vpasAtStart = vpas
    /\ staleRows = 0
    /\ envDeleted = 0
    /\ file = NoFile

\* the provisioning job is started first
InitManage ==
    /\ jobs = <<"manage">>
    /\ flagNs \in FlagChoices
    /\ \E ws \in SeqsUpTo(ManageWorkloads, MaxWorkloads) :
          /\ distinctObjects(ws)
          /\ groupedByKind(ws)
          /\ noSelfOwner(ws)
          /\ workloads = [n \in Namespaces |-> IF n = "shop" THEN ws ELSE InfraWorkloads]
    /\ \E vs \in ManageVPAChoices :
          vpas = [n \in Namespaces |-> IF n = "shop" THEN vs ELSE << >>]
    /\ hpas = [n \in Namespaces |-> << >>]
    /\ InitProgram

\* the reporting job is started first
InitReport ==
    /\ jobs = <<"report">>
    /\ flagNs \in FlagChoices
    /\ \E ws \in SeqsUpTo(ReportWorkloads, MaxWorkloads) :
          /\ distinctObjects(ws)
          /\ groupedByKind(ws)
          /\ workloads = [n \in Namespaces |-> IF n = "shop" THEN ws ELSE InfraWorkloads]
    /\ \E vs \in SeqsUpTo(ReportVPAs, MaxVPAs) :
          /\ distinctNames(vs)
          /\ listedByName(vs)
          /\ vpas = [n \in Namespaces |-> IF n = "shop" THEN vs ELSE << >>]
    /\ \E hs \in HPAChoices :
          hpas = [n \in Namespaces |-> IF n = "shop" THEN hs ELSE <<HPA("Deployment", "web")>>]
    /\ InitProgram

Init == InitManage \/ InitReport

\* ------------------------------------------------------------------------
\* Both jobs: main up to the namespace loop
\* ------------------------------------------------------------------------
job == jobs[run]

namespace == namespaces[nsIdx]

\* --namespaces was given: strings.Split of the flag
UseFlagNamespaces ==
    /\ pc = "start"
    /\ flagNs # << >>
    /\ namespaces' = flagNs
    /\ nsIdx' = 1
    /\ pc' = "ns"
    /\ UNCHANGED <<cluster, jobs, run, flagNs, manageLocals, reportLocals, abortCause, history>>

\* --namespaces was left out: getNamespaces
GetNamespaces ==
    /\ pc = "start"
    /\ flagNs = << >>
    /\ \E ok \in BOOLEAN :
          IF ok
          THEN /\ namespaces' = ClusterNamespaces
               /\ nsIdx' = 1
               /\ pc' = "ns"
               /\ UNCHANGED <<abortCause, failedCalls>>
          ELSE /\ failedCalls' = failedCalls + 1
               /\ abortCause' = "listNamespaces"
               /\ pc' = onError("start")
               /\ UNCHANGED <<namespaces, nsIdx>>
    /\ UNCHANGED <<cluster, jobs, run, flagNs, manageLocals, reportLocals, createCalls,
                   vpasAtStart, staleRows, envDeleted>>

\* ------------------------------------------------------------------------
\* manage-vpas: main
\* ------------------------------------------------------------------------
\* one iteration of the namespace loop up to the resource loop: aggregateResourceNames
ManageNamespace ==
    /\ job = "manage"
    /\ pc = "ns"
    /\ nsIdx <= Len(namespaces)
    /\ \E failure \in {"none", "listDeployments", "listStatefulSets", "listDaemonSets"} :
          IF failure # "none"
          THEN /\ failedCalls' = failedCalls + 1
               /\ abortCause' = failure
               /\ pc' = onError("ns")
               /\ UNCHANGED <<resources, rIdx>>
          ELSE LET agg == aggregateResourceNames(workloads[namespace])
               IN  IF agg.panic
                   THEN /\ abortCause' = "nilDeref"
                        /\ pc' = "aborted"
                        /\ UNCHANGED <<resources, rIdx, failedCalls>>
                   ELSE /\ resources' = agg.results
                        /\ rIdx' = 1
                        /\ pc' = "res"
                        /\ UNCHANGED <<abortCause, failedCalls>>
    /\ UNCHANGED <<cluster, jobs, run, flagNs, namespaces, nsIdx, reportLocals, createCalls,
                   vpasAtStart, staleRows, envDeleted>>

CreateCall(v, ok) ==
    [run |-> run, namespace |-> namespace, target |-> v.target, name |-> v.name, ok |-> ok]

\* one iteration of the resource loop: list the VPAs of the namespace, then createVPA
ManageResource ==
    /\ job = "manage"
    /\ pc = "res"
    /\ rIdx <= Len(resources)
    /\ \E listOk \in BOOLEAN, createOk \in BOOLEAN :
          LET r == resources[rIdx]
              c == createVPA(r.apiVersion, r.kind, r.name, vpas[namespace])
          IN  IF ~listOk
              THEN /\ createOk
                   /\ failedCalls' = failedCalls + 1
                   /\ abortCause' = "listVPAs"
                   /\ pc' = onError("res")
                   /\ UNCHANGED <<vpas, rIdx, createCalls>>
              ELSE IF c.skip
              THEN /\ createOk
                   /\ vpas' = [vpas EXCEPT ![namespace] = afterCreateVPA(@, c)]
                   /\ rIdx' = rIdx + 1
                   /\ UNCHANGED <<pc, abortCause, createCalls, failedCalls>>
              ELSE IF createOk /\ ~nameTaken(vpas[namespace], c.vpa)
              THEN /\ vpas' = [vpas EXCEPT ![namespace] = afterCreateVPA(@, c)]
                   /\ createCalls' = Append(createCalls, CreateCall(c.vpa, TRUE))
                   /\ rIdx' = rIdx + 1
                   /\ UNCHANGED <<pc, abortCause, failedCalls>>
              ELSE /\ createCalls' = Append(createCalls, CreateCall(c.vpa, FALSE))
                   /\ failedCalls' = failedCalls + 1
                   /\ abortCause' = IF createOk THEN "createAlreadyExists" ELSE "createVPA"
                   /\ pc' = onError("res")
                   /\ UNCHANGED <<vpas, rIdx>>
    /\ UNCHANGED <<workloads, hpas, file, jobs, run, flagNs, namespaces, nsIdx, resources,
                   reportLocals, vpasAtStart, staleRows, envDeleted>>

\* the resource loop is over: next namespace
ManageNextNamespace ==
    /\ job = "manage"
    /\ pc = "res"
    /\ rIdx > Len(resources)
    /\ nsIdx' = nsIdx + 1
    /\ pc' = "ns"
    /\ UNCHANGED <<cluster, jobs, run, flagNs, namespaces, manageLocals, reportLocals,
                   abortCause, history>>

\* the namespace loop is over: main returns
ManageFinish ==
    /\ job = "manage"
    /\ pc = "ns"
    /\ nsIdx > Len(namespaces)
    /\ pc' = "done"
    /\ UNCHANGED <<cluster, jobs, run, flagNs, namespaces, nsIdx, manageLocals, reportLocals,
                   abortCause, history>>

\* ------------------------------------------------------------------------
\* get-recommendations: main
\* ------------------------------------------------------------------------
vpa == vpaItems[vIdx]

\* one iteration of the namespace loop up to the VPA loop: hpaMappings and the VPA list
ReportNamespace ==
    /\ job = "report"
    /\ pc = "ns"
    /\ nsIdx <= Len(namespaces)
    /\ \E failure \in {"none", "listHPAs", "listVPAs"} :
          IF failure # "none"
          THEN /\ failedCalls' = failedCalls + 1
               /\ abortCause' = failure
               /\ pc' = onError("ns")
               /\ UNCHANGED <<hasHPAMapping, vpaItems, vIdx>>
          ELSE /\ hasHPAMapping' = hpas[namespace]
               /\ vpaItems' = vpas[namespace]
               /\ vIdx' = 1
               /\ pc' = "vpa"
               /\ UNCHANGED <<abortCause, failedCalls>>
    /\ UNCHANGED <<cluster, jobs, run, flagNs, namespaces, nsIdx, manageLocals, cIdx, results,
                   createCalls, vpasAtStart, staleRows, envDeleted>>

\* one iteration of the VPA loop up to the recommendation loop: resourceExists, then
\* the read of vpa.Status.Recommendation, a pointer that is nil until the recommender set it
ReportTarget ==
    /\ job = "report"
    /\ pc = "vpa"
    /\ vIdx <= Len(vpaItems)
    /\ \E getOk \in BOOLEAN :
          IF ~getOk
          THEN /\ vpa.target.kind \in SupportedKinds
               /\ failedCalls' = failedCalls + 1
               /\ abortCause' = "getTarget"
               /\ pc' = onError("vpa")
               /\ UNCHANGED <<vIdx, cIdx>>
          ELSE IF ~resourceExists(vpa.target.name, vpa.target.kind, workloads[namespace])
          THEN /\ vIdx' = vIdx + 1
               /\ UNCHANGED <<pc, cIdx, abortCause, failedCalls>>
          ELSE IF ~vpa.recommendation.set
          THEN /\ abortCause' = "nilDeref"
               /\ pc' = "aborted"
               /\ UNCHANGED <<vIdx, cIdx, failedCalls>>
          ELSE /\ cIdx' = 1
               /\ pc' = "rec"
               /\ UNCHANGED <<vIdx, abortCause, failedCalls>>
    /\ UNCHANGED <<cluster, jobs, run, flagNs, namespaces, nsIdx, manageLocals, hasHPAMapping,
                   vpaItems, results, createCalls, vpasAtStart, staleRows, envDeleted>>

\* one iteration of the recommendation loop: currentResourceConfig and the row
ReportContainer ==
    /\ job = "report"
    /\ pc = "rec"
    /\ cIdx <= Len(vpa.recommendation.items)
    /\ \E getOk \in BOOLEAN :
          LET t    == vpa.target
              rec  == vpa.recommendation.items[cIdx]
              here == objectExists(workloads[namespace], t.kind, t.name)
          IN  IF t.kind \in SupportedKinds /\ (~getOk \/ ~here)
              THEN /\ failedCalls' = failedCalls + 1
                   /\ abortCause' = IF getOk THEN "targetNotFound" ELSE "getTarget"
                   /\ pc' = onError("rec")
                   /\ UNCHANGED <<cIdx, results, staleRows>>
              ELSE /\ getOk
                   /\ results' =
                         Append(results,
                                buildRow(namespace, vpa, rec,
                                         currentResourceConfig(t.name, t.kind, rec.containerName,
                                                               workloads[namespace]),
                                         hasHPAMapping))
                   /\ staleRows' = IF here THEN staleRows ELSE staleRows + 1
                   /\ cIdx' = cIdx + 1
                   /\ UNCHANGED <<pc, abortCause, failedCalls>>
    /\ UNCHANGED <<cluster, jobs, run, flagNs, namespaces, nsIdx, manageLocals, hasHPAMapping,
                   vpaItems, vIdx, createCalls, vpasAtStart, envDeleted>>

\* the recommendation loop is over: next VPA
ReportNextVPA ==
    /\ job = "report"
    /\ pc = "rec"
    /\ cIdx > Len(vpa.recommendation.items)
    /\ vIdx' = vIdx + 1
    /\ pc' = "vpa"
    /\ UNCHANGED <<cluster, jobs, run, flagNs, namespaces, nsIdx, manageLocals, hasHPAMapping,
                   vpaItems, cIdx, results, abortCause, history>>

\* the VPA loop is over: next namespace
ReportNextNamespace ==
    /\ job = "report"
    /\ pc = "vpa"
    /\ vIdx > Len(vpaItems)
    /\ nsIdx' = nsIdx + 1
    /\ pc' = "ns"
    /\ UNCHANGED <<cluster, jobs, run, flagNs, namespaces, manageLocals, reportLocals,
                   abortCause, history>>

\* the namespace loop is over: writeResults, which removes the file, creates it and writes
ReportWrite ==
    /\ job = "report"
    /\ pc = "ns"
    /\ nsIdx > Len(namespaces)
    /\ \E outcome \in {"ok", "createFile", "writeFile"} :
          CASE outcome = "ok" ->
                  /\ file' = [exists |-> TRUE, rows |-> csvSource(results)]
                  /\ pc' = "done"
                  /\ UNCHANGED abortCause
            [] outcome = "createFile" ->
                  /\ file' = NoFile
                  /\ abortCause' = outcome
                  /\ pc' = onError("done")
            [] outcome = "writeFile" ->
                  /\ \E k \in 0..Len(results) :
                        file' = [exists |-> TRUE, rows |-> SubSeq(csvSource(results), 1, k)]
                  /\ abortCause' = outcome
                  /\ pc' = onError("done")
    /\ UNCHANGED <<workloads, vpas, hpas, jobs, run, flagNs, namespaces, nsIdx, manageLocals,
                   reportLocals, history>>

\* ------------------------------------------------------------------------
\* The world around the jobs
\* ------------------------------------------------------------------------
\* another actor deletes the target of the VPA the reporting job is working on
EnvDeleteTarget ==
    /\ job = "report"
    /\ pc = "rec"
    /\ envDeleted < MaxEnvDeletes
    /\ objectExists(workloads[namespace], vpa.target.kind, vpa.target.name)
    /\ workloads' =
          [workloads EXCEPT ![namespace] =
              SelectSeq(@, LAMBDA w : ~(w.kind = vpa.target.kind /\ w.name = vpa.target.name))]
    /\ envDeleted' = envDeleted + 1
    /\ UNCHANGED <<vpas, hpas, file, jobs, run, flagNs, pc, namespaces, nsIdx, manageLocals,
                   reportLocals, abortCause, createCalls, failedCalls, vpasAtStart, staleRows>>

\* a job has returned and a job is invoked again with the same flag; the workflow
\* provisions before it reports
StartNextRun ==
    /\ pc = "done"
    /\ run < MaxRuns
    /\ \E j \in (IF job = "manage" THEN {"manage", "report"} ELSE {"report"}) :
          jobs' = Append(jobs, j)
    /\ run' = run + 1
    /\ pc' = "start"
    /\ namespaces' = << >>
    /\ nsIdx' = 0
    /\ resources' = << >>
    /\ rIdx' = 0
    /\ hasHPAMapping' = << >>
    /\ vpaItems' = << >>
    /\ vIdx' = 0
    /\ cIdx' = 0
    /\ results' = << >>
    /\ vpasAtStart' = vpas
    /\ UNCHANGED <<cluster, flagNs, abortCause, createCalls, failedCalls, staleRows,
                   envDeleted>>

Next ==
    \/ UseFlagNamespaces
    \/ GetNamespaces
    \/ ManageNamespace
    \/ ManageResource
    \/ ManageNextNamespace
    \/ ManageFinish
    \/ ReportNamespace
    \/ ReportTarget
    \/ ReportContainer
    \/ ReportNextVPA
    \/ ReportNextNamespace
    \/ ReportWrite
    \/ EnvDeleteTarget
    \/ StartNextRun

Spec == Init /\ [][Next]_vars

\* ------------------------------------------------------------------------
\* Properties
\* ------------------------------------------------------------------------
Range(f) == { f[i] : i \in DOMAIN f }

\* the workloads of a namespace in the order the provisioning job enumerates them
Enumerated(ns) ==
    listKind(workloads[ns], "Deployment") \o listKind(workloads[ns], "StatefulSet")
        \o listKind(workloads[ns], "DaemonSet")

\* the owner reference entries of w that are marked as controller
ControllerEntries(w) ==
    { i \in 1..Len(w.ownerReferences) : w.ownerReferences[i].controller = "true" }

\* the target the specification resolves w to
ExpectedTarget(w) ==
    IF ControllerEntries(w) = {} THEN Target("apps/v1", w.kind, w.name)
    ELSE LET o == w.ownerReferences[Min(ControllerEntries(w))]
         IN  Target(o.apiVersion, o.kind, o.name)

ExpectedTargets(ns) == [i \in 1..Len(Enumerated(ns)) |-> ExpectedTarget(Enumerated(ns)[i])]

\* the enumerated workloads of ns that resolve to t
Resolvers(ns, t) == { i \in 1..Len(Enumerated(ns)) : ExpectedTarget(Enumerated(ns)[i]) = t }

\* the create calls run r issued for target t in ns
CallsFor(r, ns, t) ==
    { i \in 1..Len(createCalls) :
        /\ createCalls[i].run = r
        /\ createCalls[i].namespace = ns
        /\ createCalls[i].target = t }

\* the VPAs of ns that reference t and were created by run r
CreatedBy(r, ns, t) ==
    { j \in 1..Len(vpas[ns]) :
        /\ vpas[ns][j].target = t
        /\ \E i \in CallsFor(r, ns, t) :
              createCalls[i].ok /\ createCalls[i].name = vpas[ns][j].name }

TargetedAtStart(ns, t) == \E j \in 1..Len(vpasAtStart[ns]) : vpasAtStart[ns][j].target = t

ManageDone == job = "manage" /\ pc = "done"

\* C1: every enumerated workload resolves to its first controller entry, or to
\* ("apps/v1", own kind, own name) when it has none, and resolution never aborts the run.
C1_OwnerResolution ==
    job = "manage" =>
        /\ abortCause # "nilDeref"
        /\ pc = "res" => resources = ExpectedTargets(namespace)

\* C2 as stated: workloads of a namespace that share a resolved target get exactly one
\* create call and exactly one VPA created by the run.
C2_ExactlyOneCreate ==
    ManageDone =>
        \A ns \in Range(namespaces) : \A t \in Range(ExpectedTargets(ns)) :
            Cardinality(Resolvers(ns, t)) >= 2 =>
                /\ Cardinality(CallsFor(run, ns, t)) = 1
                /\ Cardinality(CreatedBy(run, ns, t)) = 1

\* C2 amended: such a target gets at most one create call in a run; when the run completes,
\* exactly one call and one created VPA if no VPA referenced the target before the run,
\* and none if one did.
C2_AtMostOneCreate ==
    job = "manage" =>
        \A ns \in Namespaces : \A t \in Range(ExpectedTargets(ns)) :
            Cardinality(Resolvers(ns, t)) >= 2 =>
                /\ Cardinality(CallsFor(run, ns, t)) <= 1
                /\ (pc = "done" /\ ns \in Range(namespaces)) =>
                      LET n == IF TargetedAtStart(ns, t) THEN 0 ELSE 1
                      IN  /\ Cardinality(CallsFor(run, ns, t)) = n
                          /\ Cardinality(CreatedBy(run, ns, t)) = n

\* a completed run in which two siblings of one kind shared a target that got its one VPA
C2_Witness ==
    /\ ManageDone
    /\ \E t \in Range(ExpectedTargets("shop")) :
          /\ \E i, j \in Resolvers("shop", t) :
                i # j /\ Enumerated("shop")[i].kind = Enumerated("shop")[j].kind
          /\ Cardinality(CreatedBy(run, "shop", t)) = 1

\* C3: a provisioning run that follows a completed provisioning run issues no create call
\* and leaves the VPAs as they were.
C3_Idempotent ==
    (run > 1 /\ job = "manage" /\ jobs[run - 1] = "manage") =>
        /\ \A i \in 1..Len(createCalls) : createCalls[i].run # run
        /\ vpas = vpasAtStart

\* a second provisioning run completed after a first one that created VPAs
C3_Witness ==
    /\ run = 2
    /\ jobs = <<"manage", "manage">>
    /\ pc = "done"
    /\ \E i \in 1..Len(createCalls) : createCalls[i].run = 1 /\ createCalls[i].ok

\* C4: after a completed run every enumerated workload of every processed namespace has a
\* VPA on its resolved target, and no create call was issued for a target that had a VPA
\* before the run.
C4_Coverage ==
    job = "manage" =>
        /\ pc = "done" =>
              \A ns \in Range(namespaces) : \A t \in Range(ExpectedTargets(ns)) :
                  \E j \in 1..Len(vpas[ns]) : vpas[ns][j].target = t
        /\ \A i \in 1..Len(createCalls) :
              createCalls[i].run = run =>
                  ~TargetedAtStart(createCalls[i].namespace, createCalls[i].target)

\* a completed run that skipped a target covered before the run and created another VPA
C4_Witness ==
    /\ ManageDone
    /\ \E t \in Range(ExpectedTargets("shop")) : TargetedAtStart("shop", t)
    /\ \E i \in 1..Len(createCalls) : createCalls[i].run = run /\ createCalls[i].ok

\* the VPA a successful create call stored
Stored(c) ==
    { j \in 1..Len(vpas[c.namespace]) :
        vpas[c.namespace][j].name = c.name /\ vpas[c.namespace][j].target = c.target }

\* an enumerated workload with that identity has a controlling owner
OwnedWorkload(ns, t) ==
    \E i \in 1..Len(Enumerated(ns)) :
        LET w == Enumerated(ns)[i]
        IN  /\ t = Target("apps/v1", w.kind, w.name)
            /\ ControllerEntries(w) # {}

\* C5 as stated: a created VPA references the resolved target of an enumerated workload of
\* its namespace, and never a workload that has a controlling owner.
C5_NeverOwnedWorkload ==
    job = "manage" => \A i \in 1..Len(createCalls) :
        LET c == createCalls[i]
        IN  c.ok => /\ Stored(c) # {}
                    /\ Resolvers(c.namespace, c.target) # {}
                    /\ ~OwnedWorkload(c.namespace, c.target)

\* C5 amended: a created VPA references the resolved target of an enumerated workload of
\* its namespace; it references a workload that has a controlling owner only when that
\* workload is the controller entry of another enumerated workload.
C5_TargetIsResolved ==
    job = "manage" => \A i \in 1..Len(createCalls) :
        LET c == createCalls[i]
        IN  c.ok => /\ Stored(c) # {}
                    /\ Resolvers(c.namespace, c.target) # {}
                    /\ OwnedWorkload(c.namespace, c.target) =>
                          \E k \in Resolvers(c.namespace, c.target) :
                              LET w == Enumerated(c.namespace)[k]
                              IN  /\ ControllerEntries(w) # {}
                                  /\ Target("apps/v1", w.kind, w.name) # c.target

\* StatefulSet cache is owned by Prometheus monitoring: the run created a VPA for the
\* owner and none for the StatefulSet
C5_Witness ==
    /\ ManageDone
    /\ \E k \in 1..Len(Enumerated("shop")) :
          /\ Enumerated("shop")[k].kind = "StatefulSet"
          /\ Enumerated("shop")[k].name = "cache"
          /\ Enumerated("shop")[k].ownerReferences = <<PromTrue>>
    /\ Cardinality(CreatedBy(run, "shop",
                             Target("monitoring.coreos.com/v1", "Prometheus", "monitoring"))) = 1
    /\ \A j \in 1..Len(vpas["shop"]) :
          vpas["shop"][j].target # Target("apps/v1", "StatefulSet", "cache")

\* C6: every VPA the provisioning job created has update mode "Off" and the two fixed
\* labels, whatever the flag, the workloads and their owner references.
C6_OffAndLabelled ==
    \A i \in 1..Len(createCalls) :
        LET c == createCalls[i]
        IN  c.ok =>
              /\ Stored(c) # {}
              /\ \A j \in Stored(c) :
                    /\ vpas[c.namespace][j].updateMode = "Off"
                    /\ vpas[c.namespace][j].labels =
                          { <<"managed-by", "vpa-recommendations-script">>,
                            <<"source-control-managed", "false">> }

\* a run created a VPA for a workload that names a controller in its owner references
C6_Witness ==
    /\ job = "manage"
    /\ \E i \in 1..Len(createCalls) :
          /\ createCalls[i].ok
          /\ createCalls[i].target.kind = "Prometheus"
          /\ Stored(createCalls[i]) # {}

IsPrefix(a, b) == Len(a) <= Len(b) /\ SubSeq(b, 1, Len(a)) = a

\* C7: no step of either job changes or removes an existing VPA; the provisioning job only
\* adds VPAs and leaves the workloads alone, the reporting job leaves the VPAs and the
\* workloads as they are.
C7_NoMutation ==
    [][ /\ \A ns \in Namespaces : IsPrefix(vpas[ns], vpas'[ns])
        /\ job = "manage" => workloads' = workloads
        /\ job = "report" =>
              /\ vpas' = vpas
              /\ envDeleted' = envDeleted => workloads' = workloads ]_vars

\* a completed provisioning run that found VPAs and created more
C7_Witness ==
    /\ ManageDone
    /\ vpasAtStart["shop"] # << >>
    /\ IsPrefix(vpasAtStart["shop"], vpas["shop"])
    /\ Len(vpas["shop"]) > Len(vpasAtStart["shop"])

\* C8: the provisioning job stops at the first failed cluster call: one failed call at
\* most, no step after it, a failed create call is the last create call, and the VPAs
\* created before it are still there.
C8_FailFast ==
    job = "manage" =>
        /\ failedCalls <= 1
        /\ failedCalls = 1 => pc = "aborted"
        /\ \A i \in 1..Len(createCalls) :
              IF createCalls[i].ok THEN Stored(createCalls[i]) # {}
              ELSE i = Len(createCalls) /\ pc = "aborted"

\* a run aborted by a failed create call after it had created a VPA
C8_Witness ==
    /\ job = "manage"
    /\ pc = "aborted"
    /\ failedCalls = 1
    /\ Len(createCalls) >= 2
    /\ createCalls[1].ok
    /\ createCalls[1].run = run
    /\ ~createCalls[Len(createCalls)].ok

\* C9: a VPA whose target does not exist contributes no row, whatever the kind of the
\* target, and the run does not abort when the target is gone at the fetch of its requests.
C9_StaleTargetSkip ==
    job = "report" => staleRows = 0 /\ abortCause # "targetNotFound"

\* the CPU recommendations the VPA of a row holds for the row's container
RecommendedCPU(r) ==
    { vpas[r.namespace][j].recommendation.items[k].cpu :
        j \in { j \in 1..Len(vpas[r.namespace]) : vpas[r.namespace][j].name = r.vpaName },
        k \in { k \in 1..3 :
                  \E j \in 1..Len(vpas[r.namespace]) :
                      /\ vpas[r.namespace][j].name = r.vpaName
                      /\ k <= Len(vpas[r.namespace][j].recommendation.items)
                      /\ vpas[r.namespace][j].recommendation.items[k].containerName
                            = r.containerName } }

\* C10: for a row whose container is found, by case-insensitive name, in the pod template
\* of its target: a non-zero CPU request gives "<milli>m" and cpuDiff = recommended minus
\* current; a zero or missing CPU request gives "NOT_SET" and cpuDiff = 0.
C10_CpuDrift ==
    \A i \in 1..Len(results) :
        LET r  == results[i]
            ws == workloads[r.namespace]
        IN  (r.resourceType \in SupportedKinds
                /\ objectExists(ws, r.resourceType, r.resourceName)) =>
              LET cs == getObject(ws, r.resourceType, r.resourceName).containers
                  m  == { j \in 1..Len(cs) : ToLower(cs[j].name) = ToLower(r.containerName) }
              IN  m # {} =>
                    LET cur == cs[Min(m)].cpu
                    IN  IF cur # 0
                        THEN /\ r.currentConfig.currentCPUStr = ToString(cur) \o "m"
                             /\ \E q \in RecommendedCPU(r) : r.currentConfig.cpuDiff = q - cur
                        ELSE /\ r.currentConfig.currentCPUStr = "NOT_SET"
                             /\ r.currentConfig.cpuDiff = 0

\* 500m recommended against a request of 250m: a diff of 250
C10_Witness ==
    \E i \in 1..Len(results) :
        /\ results[i].targetCPUStr = "500m"
        /\ results[i].currentConfig.currentCPUStr = "250m"
        /\ results[i].currentConfig.cpuDiff = 250

\* C11: a row of a VPA whose target kind is not Deployment, StatefulSet or DaemonSet
\* reports both current requests as "NOT_SET" and both diffs as 0.
C11_UnsupportedKindNotSet ==
    \A i \in 1..Len(results) :
        results[i].resourceType \notin {"Deployment", "StatefulSet", "DaemonSet"} =>
            /\ results[i].currentConfig.currentCPUStr = "NOT_SET"
            /\ results[i].currentConfig.currentMemStr = "NOT_SET"
            /\ results[i].currentConfig.cpuDiff = 0
            /\ results[i].currentConfig.memDiff = 0

\* the spellings of one string that differ in case only
CaseClasses ==
    { {"web", "WEB"}, {"app", "App", "APP"}, {"Deployment", "deployment"},
      {"StatefulSet", "statefulset"}, {"DaemonSet", "daemonset"},
      {"Prometheus", "prometheus"} }

SameIgnoringCase(a, b) == a = b \/ \E c \in CaseClasses : a \in c /\ b \in c

\* C12: a row is flagged HPA-enabled exactly when an HPA of the row's namespace has a
\* scale target whose kind and name equal the row's, case ignored; the HPAs of other
\* namespaces do not count.
C12_HpaFlag ==
    \A i \in 1..Len(results) :
        LET r == results[i]
        IN  r.hasHPA <=>
              \E k \in 1..Len(hpas[r.namespace]) :
                  /\ SameIgnoringCase(hpas[r.namespace][k].kind, r.resourceType)
                  /\ SameIgnoringCase(hpas[r.namespace][k].name, r.resourceName)

\* Deployment web is flagged through an HPA on deployment/WEB of its namespace
C12_Witness ==
    \E i \in 1..Len(results) :
        /\ results[i].hasHPA
        /\ results[i].namespace = "shop"
        /\ results[i].resourceType = "Deployment"
        /\ results[i].resourceName = "web"
        /\ \E k \in 1..Len(hpas["shop"]) : hpas["shop"][k] = HPA("deployment", "WEB")
        /\ \A k \in 1..Len(hpas["shop"]) : hpas["shop"][k] # HPA("Deployment", "web")

\* the (namespace, kind, name, container) of the rows a VPA stands for
PairsOfVPA(ns, v) ==
    [k \in 1..Len(v.recommendation.items) |->
        <<ns, v.target.kind, v.target.name, v.recommendation.items[k].containerName>>]

RECURSIVE PairsOfVPAs(_, _)
\* one pair per container recommendation of each VPA of ns whose target is in the cluster
PairsOfVPAs(ns, vs) ==
    IF vs = << >> THEN << >>
    ELSE (IF objectExists(workloads[ns], Head(vs).target.kind, Head(vs).target.name)
          THEN PairsOfVPA(ns, Head(vs)) ELSE << >>) \o PairsOfVPAs(ns, Tail(vs))

RECURSIVE PairsOfNamespaces(_)
PairsOfNamespaces(nss) ==
    IF nss = << >> THEN << >>
    ELSE PairsOfVPAs(Head(nss), vpas[Head(nss)]) \o PairsOfNamespaces(Tail(nss))

\* the first four fields of the data rows of the report file
WrittenPairs == [i \in 1..(Len(file.rows) - 1) |-> SubSeq(file.rows[i + 1], 1, 4)]

\* a failing cluster call aborts the run and leaves the report file as it was
AbortKeepsFile == failedCalls' # failedCalls => pc' = "aborted" /\ file' = file

\* the file is touched only once every namespace is processed, in a run without failure
WrittenAtTheEnd ==
    file' # file => pc = "ns" /\ nsIdx > Len(namespaces) /\ failedCalls = 0

\* a completed report holds the header and one row per pair, in processing order
CompleteReport ==
    (pc # "done" /\ pc' = "done" /\ envDeleted = 0) =>
        /\ file'.exists
        /\ file'.rows[1] = csvHeader
        /\ WrittenPairs' = PairsOfNamespaces(namespaces)

\* C13: in the reporting job a failing cluster call aborts the run before the report is
\* written and leaves an earlier report file unmodified; the report is written only after
\* all namespaces are processed and then holds exactly one row per (VPA with existing
\* target, container recommendation) pair, in processing order.
C13_NoPartialReport ==
    [][job = "report" => AbortKeepsFile /\ WrittenAtTheEnd /\ CompleteReport]_vars

\* the memory recommendations the VPA of a row holds for the row's container
RecommendedMem(r) ==
    { vpas[r.namespace][j].recommendation.items[k].mem :
        j \in { j \in 1..Len(vpas[r.namespace]) : vpas[r.namespace][j].name = r.vpaName },
        k \in { k \in 1..3 :
                  \E j \in 1..Len(vpas[r.namespace]) :
                      /\ vpas[r.namespace][j].name = r.vpaName
                      /\ k <= Len(vpas[r.namespace][j].recommendation.items)
                      /\ vpas[r.namespace][j].recommendation.items[k].containerName
                            = r.containerName } }

\* C14: for a row whose container is found in the pod template of its target: a zero or
\* missing memory request gives "NOT_SET" and memDiff = 0; every non-zero request, one
\* below 1 MiB included, gives "<request \div 1024*1024>Mi" and memDiff = recommended
\* bytes minus current bytes.
C14_MemDrift ==
    \A i \in 1..Len(results) :
        LET r  == results[i]
            ws == workloads[r.namespace]
        IN  (r.resourceType \in SupportedKinds
                /\ objectExists(ws, r.resourceType, r.resourceName)) =>
              LET cs == getObject(ws, r.resourceType, r.resourceName).containers
                  m  == { j \in 1..Len(cs) :
                            SameIgnoringCase(cs[j].name, r.containerName) }
              IN  m # {} =>
                    LET cur == cs[Min(m)].mem
                    IN  IF cur # 0
                        THEN /\ r.currentConfig.currentMemStr
                                    = ToString(cur \div (1024 * 1024)) \o "Mi"
                             /\ \E q \in RecommendedMem(r) : r.currentConfig.memDiff = q - cur
                        ELSE /\ r.currentConfig.currentMemStr = "NOT_SET"
                             /\ r.currentConfig.memDiff = 0

\* C15: the reporting job does not abort on a VPA whose target exists and whose status
\* holds no recommendation; such a VPA gives no row and the run goes on.
C15_ToleratesNoRecommendation ==
    job = "report" => ~(pc = "aborted" /\ abortCause = "nilDeref")

\* C16: a created VPA is named "<targetName>-vpa-8dn39", and no create call of a run is
\* rejected because an earlier create call of the same run, for another target of the same
\* namespace, took its name.
C16_NoNameCollision ==
    \A j \in 1..Len(createCalls) :
        /\ createCalls[j].name = createCalls[j].target.name \o "-vpa-" \o vpaSuffix
        /\ \A i \in 1..(j - 1) :
              (/\ createCalls[i].run = createCalls[j].run
               /\ createCalls[i].namespace = createCalls[j].namespace
               /\ createCalls[i].target # createCalls[j].target
               /\ createCalls[i].ok) =>
                  ~(/\ ~createCalls[j].ok
                    /\ createCalls[j].name = createCalls[i].name
                    /\ abortCause = "createAlreadyExists")

====
